---------------------------- MODULE Spec2Model ----------------------------
(***************************************************************************)
(* Model of the ROS message-definition introspection core of rerun-ros     *)
(* (src/ros_introspection: type.rs, field.rs, message.rs).                 *)
(*                                                                         *)
(* Text is modelled as a sequence of one-character strings, so that the    *)
(* regular expressions, trimming, line splitting and hashing of the source *)
(* are computed character by character.                                    *)
(***************************************************************************)
EXTENDS Integers, Sequences, FiniteSets, TLC

(***************************************************************************)
(* Characters                                                              *)
(***************************************************************************)
\* printable ASCII, code 32 (space) to 126 (~), in code order; the double
\* quote, the backslash and the backquote are held by placeholders and never
\* occur in inputs
Printable ==
  << " ", "!", "<dquote>", "#", "$", "%", "&", "'", "(", ")", "*", "+", ",", "-", ".", "/",
     "0", "1", "2", "3", "4", "5", "6", "7", "8", "9", ":", ";", "<", "=", ">", "?",
     "@", "A", "B", "C", "D", "E", "F", "G", "H", "I", "J", "K", "L", "M", "N", "O",
     "P", "Q", "R", "S", "T", "U", "V", "W", "X", "Y", "Z", "[", "<bslash>", "]", "^", "_",
     "<bquote>", "a", "b", "c", "d", "e", "f", "g", "h", "i", "j", "k", "l", "m", "n", "o",
     "p", "q", "r", "s", "t", "u", "v", "w", "x", "y", "z", "{", "|", "}", "~" >>

NL == "\n"
TAB == "\t"

\* the UTF-8 byte of a character (all characters of the model are ASCII)
ByteOf(c) ==
  IF c = NL THEN 10
  ELSE IF c = TAB THEN 9
  ELSE 31 + (CHOOSE i \in 1..Len(Printable) : Printable[i] = c)

Upper == {Printable[i] : i \in 34..59}
Lower == {Printable[i] : i \in 66..91}
Digit == {Printable[i] : i \in 17..26}
\* regex class [a-zA-Z]
Letter == Upper \cup Lower
\* regex class [a-zA-Z0-9_]
IdentChar == Letter \cup Digit \cup {"_"}
\* regex class \s and char::is_whitespace, restricted to ASCII
White == {" ", TAB, NL}

(***************************************************************************)
(* Strings: sequences of characters                                        *)
(***************************************************************************)
EmptyStr == << >>

\* &s[from..] with 1-based position of the first kept character
Suffix(s, from) == IF from > Len(s) THEN EmptyStr ELSE SubSeq(s, from, Len(s))

\* &s[..to]
Prefix(s, to) == IF to < 1 THEN EmptyStr ELSE SubSeq(s, 1, to)

\* str::starts_with
starts_with(s, p) == Len(p) <= Len(s) /\ SubSeq(s, 1, Len(p)) = p

\* str::trim: strips leading and trailing whitespace
trim(s) ==
  LET keep == {i \in 1..Len(s) : s[i] \notin White}
  IN  IF keep = {} THEN EmptyStr
      ELSE SubSeq(s, CHOOSE i \in keep : \A j \in keep : i <= j,
                     CHOOSE i \in keep : \A j \in keep : j <= i)

\* concatenation of a sequence of strings
RECURSIVE Concat(_)
Concat(ss) == IF ss = << >> THEN EmptyStr ELSE Head(ss) \o Concat(Tail(ss))

\* F applied to the value of v, v being evaluated once
Bind(v, F(_)) == CHOOSE y \in {F(x) : x \in {v}} : TRUE

Min(S) == CHOOSE x \in S : \A y \in S : x <= y
Max(S) == CHOOSE x \in S : \A y \in S : y <= x

(***************************************************************************)
(* Result values                                                           *)
(***************************************************************************)
Ok(v) == [tag |-> "Ok", v |-> v]
Err(e) == [tag |-> "Err", e |-> e]
IsOk(r) == r.tag = "Ok"
IsErr(r) == r.tag = "Err"


(***************************************************************************)
(* calculate_hash: DefaultHasher::new() is SipHash-1-3 with a zero key;    *)
(* str::hash feeds it the bytes of the string followed by the byte 0xff.   *)
(* A 64-bit word is four 16-bit limbs, least significant first.            *)
(***************************************************************************)
Limb == 65536

\* a ^ b for 4-bit a and b, at XorNibble[a + 1][b + 1]
XorNibble ==
  <<
     <<  0,  1,  2,  3,  4,  5,  6,  7,  8,  9, 10, 11, 12, 13, 14, 15 >>,
     <<  1,  0,  3,  2,  5,  4,  7,  6,  9,  8, 11, 10, 13, 12, 15, 14 >>,
     <<  2,  3,  0,  1,  6,  7,  4,  5, 10, 11,  8,  9, 14, 15, 12, 13 >>,
     <<  3,  2,  1,  0,  7,  6,  5,  4, 11, 10,  9,  8, 15, 14, 13, 12 >>,
     <<  4,  5,  6,  7,  0,  1,  2,  3, 12, 13, 14, 15,  8,  9, 10, 11 >>,
     <<  5,  4,  7,  6,  1,  0,  3,  2, 13, 12, 15, 14,  9,  8, 11, 10 >>,
     <<  6,  7,  4,  5,  2,  3,  0,  1, 14, 15, 12, 13, 10, 11,  8,  9 >>,
     <<  7,  6,  5,  4,  3,  2,  1,  0, 15, 14, 13, 12, 11, 10,  9,  8 >>,
     <<  8,  9, 10, 11, 12, 13, 14, 15,  0,  1,  2,  3,  4,  5,  6,  7 >>,
     <<  9,  8, 11, 10, 13, 12, 15, 14,  1,  0,  3,  2,  5,  4,  7,  6 >>,
     << 10, 11,  8,  9, 14, 15, 12, 13,  2,  3,  0,  1,  6,  7,  4,  5 >>,
     << 11, 10,  9,  8, 15, 14, 13, 12,  3,  2,  1,  0,  7,  6,  5,  4 >>,
     << 12, 13, 14, 15,  8,  9, 10, 11,  4,  5,  6,  7,  0,  1,  2,  3 >>,
     << 13, 12, 15, 14,  9,  8, 11, 10,  5,  4,  7,  6,  1,  0,  3,  2 >>,
     << 14, 15, 12, 13, 10, 11,  8,  9,  6,  7,  4,  5,  2,  3,  0,  1 >>,
     << 15, 14, 13, 12, 11, 10,  9,  8,  7,  6,  5,  4,  3,  2,  1,  0 >> >>

\* a ^ b for 16-bit a and b, nibble by nibble
Xor16(a, b) ==
  XorNibble[(a % 16) + 1][(b % 16) + 1]
  + 16 * XorNibble[((a \div 16) % 16) + 1][((b \div 16) % 16) + 1]
  + 256 * XorNibble[((a \div 256) % 16) + 1][((b \div 256) % 16) + 1]
  + 4096 * XorNibble[(a \div 4096) + 1][(b \div 4096) + 1]

WXor(a, b) ==
  << Xor16(a[1], b[1]), Xor16(a[2], b[2]), Xor16(a[3], b[3]), Xor16(a[4], b[4]) >>

\* wrapping 64-bit addition
WAdd(a, b) ==
  LET s1 == a[1] + b[1]
      s2 == a[2] + b[2] + (s1 \div Limb)
      s3 == a[3] + b[3] + (s2 \div Limb)
      s4 == a[4] + b[4] + (s3 \div Limb)
  IN  << s1 % Limb, s2 % Limb, s3 % Limb, s4 % Limb >>

RECURSIVE Pow2(_)
Pow2(n) == IF n = 0 THEN 1 ELSE 2 * Pow2(n - 1)

\* u64::rotate_left by r = 16 * k + sh bits
WRotl(a, r) ==
  LET k == r \div 16
      sh == r % 16
      lo == Pow2(16 - sh)
      hi == Pow2(sh)
      x(i) == a[((i - 1 - k + 4) % 4) + 1]
      y(i) == IF sh = 0 THEN x(i)
              ELSE ((x(i) % lo) * hi) + (x(((i + 2) % 4) + 1) \div lo)
  IN  << y(1), y(2), y(3), y(4) >>

\* the four quarters of one SipRound over << v0, v1, v2, v3 >>
SipQ1(v) == << WAdd(v[1], v[2]), WRotl(v[2], 13), WAdd(v[3], v[4]), WRotl(v[4], 16) >>
SipQ2(v) == << WRotl(v[1], 32), WXor(v[2], v[1]), v[3], WXor(v[4], v[3]) >>
SipQ3(v) == << WAdd(v[1], v[4]), WRotl(v[2], 17), WAdd(v[3], v[2]), WRotl(v[4], 21) >>
SipQ4(v) == << v[1], WXor(v[2], v[3]), WRotl(v[3], 32), WXor(v[4], v[1]) >>

SipRound(v) == Bind(Bind(Bind(Bind(v, SipQ1), SipQ2), SipQ3), SipQ4)

SipXorM(v, m) == << v[1], v[2], v[3], WXor(v[4], m) >>
SipXorV0(v, m) == << WXor(v[1], m), v[2], v[3], v[4] >>
SipXorFF(v) == << v[1], v[2], WXor(v[3], << 255, 0, 0, 0 >>), v[4] >>
SipXorAll(v) == WXor(WXor(v[1], v[2]), WXor(v[3], v[4]))

\* one message word: v3 ^= m; c_rounds; v0 ^= m
SipCompress(v, m) ==
  Bind(SipRound(Bind(v, LAMBDA x : SipXorM(x, m))), LAMBDA x : SipXorV0(x, m))

\* little-endian word of up to eight bytes, the missing ones zero
WordOf(bytes) ==
  LET b(i) == IF i <= Len(bytes) THEN bytes[i] ELSE 0
  IN  << b(1) + 256 * b(2), b(3) + 256 * b(4),
         b(5) + 256 * b(6), b(7) + 256 * b(8) >>

RECURSIVE SipBlocks(_, _)
SipBlocks(v, bytes) ==
  IF Len(bytes) < 8 THEN v
  ELSE Bind(WordOf(SubSeq(bytes, 1, 8)),
            LAMBDA m : SipBlocks(SipCompress(v, m), SubSeq(bytes, 9, Len(bytes))))

\* "somepseu", "dorandom", "lygenera", "tedbytes" xor the zero key
SipInit == << << 25973, 28787, 28005, 29551 >>, << 28525, 28260, 29281, 25711 >>,
              << 29281, 28261, 26469, 27769 >>, << 25971, 31092, 25698, 29797 >> >>

SipFinish(v) == Bind(SipRound(SipRound(SipRound(Bind(v, SipXorFF)))), SipXorAll)

SipHash13(bytes) ==
  LET n == Len(bytes)
      tail == SubSeq(bytes, n - (n % 8) + 1, n)
      last == WordOf(tail \o [i \in 1..(7 - Len(tail)) |-> 0] \o << n % 256 >>)
  IN  Bind(last, LAMBDA m : SipFinish(SipCompress(SipBlocks(SipInit, bytes), m)))

calculate_hash(s) == SipHash13([i \in 1..Len(s) |-> ByteOf(s[i])] \o << 255 >>)

(***************************************************************************)
(* type.rs                                                                 *)
(***************************************************************************)
\* the match arms of to_builtin_type
BuiltinWords ==
  { << <<"b","o","o","l">>, "Bool" >>,
    << <<"b","y","t","e">>, "Byte" >>,
    << <<"c","h","a","r">>, "Char" >>,
    << <<"f","l","o","a","t","3","2">>, "Float32" >>,
    << <<"f","l","o","a","t","6","4">>, "Float64" >>,
    << <<"i","n","t","8">>, "Int8" >>,
    << <<"u","i","n","t","8">>, "Uint8" >>,
    << <<"i","n","t","1","6">>, "Int16" >>,
    << <<"u","i","n","t","1","6">>, "Uint16" >>,
    << <<"i","n","t","3","2">>, "Int32" >>,
    << <<"u","i","n","t","3","2">>, "Uint32" >>,
    << <<"i","n","t","6","4">>, "Int64" >>,
    << <<"u","i","n","t","6","4">>, "Uint64" >>,
    << <<"s","t","r","i","n","g">>, "String" >>,
    << <<"w","s","t","r","i","n","g">>, "WString" >> }

to_builtin_type(s) ==
  IF \E w \in BuiltinWords : w[1] = s
  THEN (CHOOSE w \in BuiltinWords : w[1] = s)[2]
  ELSE "Other"

\* last position of the longest run of [a-zA-Z0-9_] that starts at p
\* (p - 1 when there is none)
RECURSIVE IdentRunEnd(_, _)
IdentRunEnd(s, p) ==
  IF p <= Len(s) /\ s[p] \in IdentChar THEN IdentRunEnd(s, p + 1) ELSE p - 1

\* [a-zA-Z][a-zA-Z0-9_]+ matched greedily at p: its last position, 0 if no match
NameEndAt(s, p) ==
  IF p <= Len(s) /\ s[p] \in Letter /\ IdentRunEnd(s, p + 1) >= p + 1
  THEN IdentRunEnd(s, p + 1)
  ELSE 0

MsgInfix == <<"m","s","g","/">>

\* ([a-zA-Z][a-zA-Z0-9_]+)/(msg/)?([a-zA-Z][a-zA-Z0-9_]+) matched at p:
\* the positions <<p, end of group 1, start of group 3, end of group 3>>,
\* or << >> when there is no match at p
DatatypeAt(s, p) ==
  LET e1 == NameEndAt(s, p)
      q == e1 + 2
      withInfix == IF starts_with(Suffix(s, q), MsgInfix)
                   THEN NameEndAt(s, q + 4) ELSE 0
      without == NameEndAt(s, q)
  IN  IF e1 = 0 \/ e1 + 1 > Len(s) \/ s[e1 + 1] # "/" THEN << >>
      ELSE IF withInfix # 0 THEN << p, e1, q + 4, withInfix >>
      ELSE IF without # 0 THEN << p, e1, q, without >>
      ELSE << >>

\* Regex::captures: the leftmost match of the unanchored pattern
msg_datatype_regex(s) ==
  LET starts == {p \in 1..Len(s) : DatatypeAt(s, p) # << >>}
  IN  IF starts = {} THEN << >> ELSE DatatypeAt(s, Min(starts))

\* Type::new_with_parent_package; the regex compiles and groups 1 and 3
\* take part in every match, so no error path is reachable
new_with_parent_package(name, parent_pkg_name) ==
  Bind(to_builtin_type(name), LAMBDA id :
    Bind(msg_datatype_regex(name), LAMBDA what :
      Ok([base_name |-> name,
          pkg_name |-> IF what # << >> THEN SubSeq(name, what[1], what[2])
                       ELSE IF id = "Other" THEN parent_pkg_name
                       ELSE EmptyStr,
          msg_name |-> IF what # << >> THEN SubSeq(name, what[3], what[4])
                       ELSE name,
          id |-> id,
          hash |-> calculate_hash(name)])))

\* Type::new
TypeNew(name) == new_with_parent_package(name, EmptyStr)

\* TypeEq with the comparison made on the parsed parts instead of the hash
TypeEq_mutByParts(a, b) == a.pkg_name = b.pkg_name /\ a.msg_name = b.msg_name

\* impl PartialEq for Type
TypeEq(a, b) == a.hash = b.hash

(***************************************************************************)
(* field.rs                                                                *)
(***************************************************************************)
\* position of the first character of s, at or after p, that lies in the
\* class C; 0 when there is none
FirstIn(s, p, C) ==
  LET hits == {i \in p..Len(s) : s[i] \in C}
  IN  IF hits = {} THEN 0 ELSE Min(hits)

\* position of the first character of s that is not whitespace (regex \S)
FirstNonWhite(s) ==
  LET hits == {i \in 1..Len(s) : s[i] \notin White}
  IN  IF hits = {} THEN 0 ELSE Min(hits)

RECURSIVE DigitRunEnd(_, _)
DigitRunEnd(s, p) ==
  IF p <= Len(s) /\ s[p] \in Digit THEN DigitRunEnd(s, p + 1) ELSE p - 1

\* type_regex matched greedily at the letter at p:
\* [a-zA-Z][a-zA-Z0-9_]*(/[a-zA-Z][a-zA-Z0-9_]*){0,1}(\[[0-9]*\]){0,1}
\* gives the last position of the match
TypeEndAt(s, p) ==
  LET e1 == IdentRunEnd(s, p + 1)
      e2 == IF e1 + 2 <= Len(s) /\ s[e1 + 1] = "/" /\ s[e1 + 2] \in Letter
            THEN IdentRunEnd(s, e1 + 3) ELSE e1
      d == DigitRunEnd(s, e2 + 2)
  IN  IF e2 + 1 <= Len(s) /\ s[e2 + 1] = "[" /\ d + 1 <= Len(s) /\ s[d + 1] = "]"
      THEN d + 1 ELSE e2

\* array_regex (.+)(\[(\d*)\]) on the type token: the position of the "[" of
\* group 2, the last one that a digit run and "]" follow; 0 when no match
ArrayBracket(t) ==
  LET hits == {b \in 2..Len(t) :
                 /\ t[b] = "["
                 /\ DigitRunEnd(t, b + 1) + 1 <= Len(t)
                 /\ t[DigitRunEnd(t, b + 1) + 1] = "]"}
  IN  IF hits = {} THEN 0 ELSE Max(hits)

DigitValue(c) == (CHOOSE i \in 17..26 : Printable[i] = c) - 17

\* isize::from_str on a run of decimal digits
RECURSIVE DecimalValue(_)
DecimalValue(d) ==
  IF d = EmptyStr THEN 0
  ELSE 10 * DecimalValue(Prefix(d, Len(d) - 1)) + DigitValue(d[Len(d)])

\* &s[..what.start()] for the first match of \s*# in s, else s
CutAtComment(s) ==
  LET q == FirstIn(s, 1, {"#"})
      before == {i \in 1..q : \A k \in i..(q - 1) : s[k] \in White}
  IN  IF q = 0 THEN s ELSE Prefix(s, Min(before) - 1)

StringWord == <<"s","t","r","i","n","g">>

\* FieldValue with the text of a non-constant field trimmed as well
FieldValue_mutTrimDefault(type_, begin) ==
  LET w == FirstNonWhite(begin)
      rest == Suffix(begin, w + 1)
  IN  IF w = 0 THEN << FALSE, EmptyStr >>
      ELSE IF begin[w] = "=" THEN
        << TRUE, trim(IF type_ = StringWord THEN rest ELSE CutAtComment(rest)) >>
      ELSE IF begin[w] = "#" THEN << FALSE, EmptyStr >>
      ELSE << FALSE, trim(CutAtComment(begin)) >>

\* FieldValue with every constant cut at the first "#", whatever its type
FieldValue_mutNoStringCase(type_, begin) ==
  LET w == FirstNonWhite(begin)
      rest == Suffix(begin, w + 1)
  IN  IF w = 0 THEN << FALSE, EmptyStr >>
      ELSE IF begin[w] = "=" THEN << TRUE, trim(CutAtComment(rest)) >>
      ELSE IF begin[w] = "#" THEN << FALSE, EmptyStr >>
      ELSE << FALSE, CutAtComment(begin) >>

\* the constant / comment part of Field::new_with_definition:
\* << is_constant, value >> from the text after the field name
FieldValue(type_, begin) ==
  LET w == FirstNonWhite(begin)
      rest == Suffix(begin, w + 1)
  IN  IF w = 0 THEN << FALSE, EmptyStr >>
      ELSE IF begin[w] = "=" THEN
        << TRUE, trim(IF type_ = StringWord THEN rest ELSE CutAtComment(rest)) >>
      ELSE IF begin[w] = "#" THEN << FALSE, EmptyStr >>
      ELSE << FALSE, CutAtComment(begin) >>

\* FieldArray with the suffix left on the type string
FieldArray_mutKeepSuffix(type_) ==
  LET b == ArrayBracket(type_)
      digits == SubSeq(type_, b + 1, DigitRunEnd(type_, b + 1))
  IN  IF b = 0 THEN << type_, FALSE, Ok(1) >>
      ELSE IF digits = EmptyStr THEN << type_, TRUE, Ok(-1) >>
      ELSE << type_, TRUE, Ok(DecimalValue(digits)) >>

\* the array part: << type string without suffix, is_array, array_size >>;
\* array_size is a Result because of isize::from_str(..)?
FieldArray(type_) ==
  LET b == ArrayBracket(type_)
      digits == SubSeq(type_, b + 1, DigitRunEnd(type_, b + 1))
  IN  IF b = 0 THEN << type_, FALSE, Ok(1) >>
      ELSE IF digits = EmptyStr THEN << Prefix(type_, b - 1), TRUE, Ok(-1) >>
      ELSE IF Len(digits) > 19 THEN << Prefix(type_, b - 1), TRUE, Err("ParseIntError") >>
      ELSE << Prefix(type_, b - 1), TRUE, Ok(DecimalValue(digits)) >>

\* Field::new_with_definition, given the positions found by the first two
\* regexes: the type token is definition[ts..te], the field name
\* definition[fs..fe]
FieldAt(definition, ts, te, fs, fe) ==
  Bind(FieldArray(SubSeq(definition, ts, te)), LAMBDA arr :
    Bind(FieldValue(arr[1], Suffix(definition, fe + 1)), LAMBDA cv :
      Bind(TypeNew(arr[1]), LAMBDA ft :
        IF IsErr(arr[3]) THEN arr[3]
        ELSE IF IsErr(ft) THEN ft
        ELSE Ok([fieldname |-> SubSeq(definition, fs, fe),
                 field_type |-> ft.v,
                 is_array |-> arr[2],
                 array_size |-> arr[3].v,
                 is_constant |-> cv[1],
                 value |-> cv[2]]))))

\* Field::new_with_definition
new_with_definition(definition) ==
  LET ts == FirstIn(definition, 1, Letter)
      te == TypeEndAt(definition, ts)
      fs == FirstIn(definition, te + 1, Letter)
      fe == IdentRunEnd(definition, fs + 1)
  IN  IF ts = 0 THEN Err("Bad type when parsing field")
      ELSE IF fs = 0 THEN Err("Bad field when parsing field")
      ELSE FieldAt(definition, ts, te, fs, fe)

\* change_type that also names the field after its new type
change_type_mutNewField(field, new_type) ==
  [field EXCEPT !.field_type = new_type, !.fieldname = new_type.msg_name]

\* Field::change_type
change_type(field, new_type) == [field EXCEPT !.field_type = new_type]

(***************************************************************************)
(* message.rs                                                              *)
(***************************************************************************)
Panic(e) == [tag |-> "Panic", e |-> e]
IsPanic(r) == r.tag = "Panic"

\* str::lines: the text between line feeds; a final line feed ends the last
\* line and starts no new one (carriage returns do not occur in the inputs)
RECURSIVE lines(_)
lines(s) ==
  IF s = EmptyStr THEN << >>
  ELSE IF FirstIn(s, 1, {NL}) = 0 THEN << s >>
  ELSE << Prefix(s, FirstIn(s, 1, {NL}) - 1) >> \o lines(Suffix(s, FirstIn(s, 1, {NL}) + 1))

\* re.is_match(line) for (^\s*$|^\s*#): a blank line or a comment line
SkipLine(line) ==
  \/ FirstNonWhite(line) = 0
  \/ line[FirstNonWhite(line)] = "#"

MsgHeader == <<"M","S","G",":">>

\* MessageLine with the new field put in front of the earlier ones
MessageLine_mutPrepend(acc, ln) ==
  IF ~IsOk(acc) THEN acc
  ELSE IF SkipLine(ln) THEN acc
  ELSE Bind(trim(ln), LAMBDA line :
    IF starts_with(line, MsgHeader) THEN
      IF Len(line) < Len(MsgHeader) + 1 THEN Panic("byte index out of range")
      ELSE Bind(TypeNew(Suffix(line, Len(MsgHeader) + 2)), LAMBDA ty_ :
             IF IsErr(ty_) THEN ty_
             ELSE Ok([acc.v EXCEPT !.msg_type = ty_.v]))
    ELSE Bind(new_with_definition(line), LAMBDA fld :
           IF IsErr(fld) THEN fld
           ELSE Ok([acc.v EXCEPT !.fields = << fld.v >> \o @])))

\* one iteration of the loop of Message::new over the line ln, from the
\* Result acc of the iterations before it
MessageLine(acc, ln) ==
  IF ~IsOk(acc) THEN acc
  ELSE IF SkipLine(ln) THEN acc
  ELSE Bind(trim(ln), LAMBDA line :
    IF starts_with(line, MsgHeader) THEN
      \* &line[("MSG:".len() + 1)..] panics when the line is just "MSG:"
      IF Len(line) < Len(MsgHeader) + 1 THEN Panic("byte index out of range")
      ELSE Bind(TypeNew(Suffix(line, Len(MsgHeader) + 2)), LAMBDA ty_ :
             IF IsErr(ty_) THEN ty_
             ELSE Ok([acc.v EXCEPT !.msg_type = ty_.v]))
    ELSE Bind(new_with_definition(line), LAMBDA fld :
           IF IsErr(fld) THEN fld
           ELSE Ok([acc.v EXCEPT !.fields = Append(@, fld.v)])))

RECURSIVE MessageLines(_, _)
MessageLines(acc, ls) ==
  IF ls = << >> THEN acc
  ELSE Bind(MessageLine(acc, Head(ls)), LAMBDA a : MessageLines(a, Tail(ls)))

\* Type::new("")
NoType == TypeNew(EmptyStr)

\* Message::new
MessageNew(def) ==
  IF IsErr(NoType) THEN NoType
  ELSE MessageLines(Ok([msg_type |-> NoType.v, fields |-> << >>]), lines(def))

\* Message::set_type
set_type(msg, new_type) == [msg EXCEPT !.msg_type = new_type]

Separator == <<"=","=","=","=","=","=","=","=">>

\* the loop of split_multiple_message_definitions: parts pushed so far and
\* the part being accumulated
RECURSIVE SplitLines(_, _, _)
SplitLines(parts, part, ls) ==
  IF ls = << >> THEN Append(parts, part)
  ELSE IF starts_with(trim(Head(ls)), Separator)
       THEN SplitLines(Append(parts, part), EmptyStr, Tail(ls))
       ELSE SplitLines(parts, part \o trim(Head(ls)) \o << NL >>, Tail(ls))

split_multiple_message_definitions(multi_def) ==
  SplitLines(<< >>, EmptyStr, lines(multi_def))

\* Reverse with the reversal left out
Reverse_mutKeepOrder(v) == v

\* Vec::reverse
Reverse(v) == [k \in 1..Len(v) |-> v[Len(v) + 1 - k]]

\* ParseBlockOf with the `i == 0` test left out
\* the strong count of a new Arc, of an Arc after a clone, and after the
\* drop of one of its handles
ArcNew == 1
ArcClone(n) == n + 1
ArcDrop(n) == n - 1

\* Arc::get_mut(..).ok_or(anyhow!(..)): the value when the Arc has one strong
\* reference
get_mut(n, v) ==
  IF n = 1 THEN Ok(v) ELSE Err("Could not get mutable reference to message")

\* PushedStrong with the handle `msg` of the iteration kept alive
PushedStrong_mutKept == ArcClone(ArcNew)

\* the strong count of a pushed message once its iteration of the first loop
\* is over: `msg` is made by Arc::new, parsed_msgs.push(msg.clone()) adds a
\* reference, and `msg` is dropped where the iteration ends
PushedStrong == ArcDrop(ArcClone(ArcNew))

ParseBlockOf_mutAnyBlock(part, i, root_type) ==
  Bind(MessageNew(part), LAMBDA r :
    IF ~IsOk(r) THEN r
    ELSE IF TypeEq(r.v.msg_type, NoType.v) /\ ~TypeEq(root_type, NoType.v)
      THEN Bind(get_mut(ArcNew, r.v), LAMBDA g :
             IF IsErr(g) THEN g ELSE Ok(set_type(g.v, root_type)))
    ELSE IF TypeEq(r.v.msg_type, NoType.v) /\ TypeEq(root_type, NoType.v)
      THEN Panic("Message type unspecified")
    ELSE r)

\* the body of the first loop of parse_message_definitions for block i
\* (1-based; block 1 is the root block): the Message to push, or the failure
ParseBlockOf(part, i, root_type) ==
  Bind(MessageNew(part), LAMBDA r :
    IF ~IsOk(r) THEN r
    ELSE IF i = 1 /\ TypeEq(r.v.msg_type, NoType.v) /\ ~TypeEq(root_type, NoType.v)
      THEN Bind(get_mut(ArcNew, r.v), LAMBDA g :
             IF IsErr(g) THEN g ELSE Ok(set_type(g.v, root_type)))
    ELSE IF i = 1 /\ TypeEq(r.v.msg_type, NoType.v) /\ TypeEq(root_type, NoType.v)
      THEN Panic("Message type unspecified")
    ELSE r)

\* the known types whose msg_name is that of the field's type, in the order
\* of known_type
GuessedTypes(field, known_type) ==
  SelectSeq(known_type, LAMBDA k : field.field_type.msg_name = k.msg_name)

\* ResolveField with the better_match loop left out
ResolveField_mutNoPreference(field, known_type, root_type) ==
  LET guessed_type == GuessedTypes(field, known_type)
  IN  IF field.field_type.pkg_name # EmptyStr THEN field
      ELSE IF guessed_type = << >> THEN field
      ELSE change_type(field, guessed_type[1])

\* ResolveField with an unmatched field rebound to the root type
ResolveField_mutRebindUnmatched(field, known_type, root_type) ==
  LET guessed_type == GuessedTypes(field, known_type)
      better == {g \in 1..Len(guessed_type) :
                   guessed_type[g].pkg_name = root_type.pkg_name}
  IN  IF field.field_type.pkg_name # EmptyStr THEN field
      ELSE IF guessed_type = << >> THEN change_type(field, root_type)
      ELSE IF better # {} THEN change_type(field, guessed_type[Min(better)])
      ELSE change_type(field, guessed_type[1])

\* the body of the loop over the fields in the second loop of
\* parse_message_definitions
ResolveField(field, known_type, root_type) ==
  LET guessed_type == GuessedTypes(field, known_type)
      better == {g \in 1..Len(guessed_type) :
                   guessed_type[g].pkg_name = root_type.pkg_name}
  IN  IF field.field_type.pkg_name # EmptyStr THEN field
      ELSE IF guessed_type = << >> THEN field
      ELSE IF better # {} THEN change_type(field, guessed_type[Min(better)])
      ELSE change_type(field, guessed_type[1])

\* the second loop of parse_message_definitions for one message
ResolveMessage(msg, known_type, root_type) ==
  [msg EXCEPT !.fields =
     [f \in 1..Len(msg.fields) |-> ResolveField(msg.fields[f], known_type, root_type)]]

(***************************************************************************)
(* parse_message_definitions as a function of its arguments                *)
(***************************************************************************)
\* the first loop, from block i down to block 1: the messages in the order
\* they are pushed, or the first failure
RECURSIVE ParseBlocks(_, _, _)
ParseBlocks(parts, i, root_type) ==
  IF i = 0 THEN Ok(<< >>)
  ELSE Bind(ParseBlockOf(parts[i], i, root_type), LAMBDA r :
         IF ~IsOk(r) THEN r
         ELSE Bind(ParseBlocks(parts, i - 1, root_type), LAMBDA rest :
                IF ~IsOk(rest) THEN rest ELSE Ok(<< r.v >> \o rest.v)))

RECURSIVE ResolveAll(_, _, _, _)
ResolveAll(msgs, j, known_type, root_type) ==
  IF j > Len(msgs) THEN << >>
  ELSE << ResolveMessage(msgs[j], known_type, root_type) >>
         \o ResolveAll(msgs, j + 1, known_type, root_type)

RECURSIVE TypesOf(_)
TypesOf(msgs) ==
  IF msgs = << >> THEN << >> ELSE << Head(msgs).msg_type >> \o TypesOf(Tail(msgs))

parse_message_definitions(multi_def, root_type) ==
  Bind(split_multiple_message_definitions(multi_def), LAMBDA parts :
    Bind(ParseBlocks(parts, Len(parts), root_type), LAMBDA r :
      IF ~IsOk(r) THEN r
      ELSE Bind(TypesOf(r.v), LAMBDA known_type :
             Ok(Reverse(ResolveAll(r.v, 1, known_type, root_type))))))

(***************************************************************************)
(* msgspec.rs. The ament index and the file system are the environment:    *)
(* env.share is the set of packages that have a share directory, env.files *)
(* maps << package, message name >> to the text of                         *)
(* <share>/msg/<name>.msg, for the files that can be read.                 *)
(***************************************************************************)
\* the type whose definition get_message_definition looks up
LookupType(topic_type, parent_package) ==
  Bind(TypeNew(topic_type), LAMBDA t :
    IF ~IsOk(t) THEN t
    ELSE IF t.v.pkg_name = EmptyStr /\ t.v.id = "Other"
      THEN new_with_parent_package(topic_type, parent_package)
      ELSE t)

\* get_message_definition with a failed read reported under another message
get_message_definition_mutWrapError(env, topic_type, parent_package) ==
  Bind(LookupType(topic_type, parent_package), LAMBDA t :
    IF ~IsOk(t) THEN t
    ELSE IF t.v.pkg_name \notin env.share
      THEN Err("Could not find package share directory for package")
    ELSE IF << t.v.pkg_name, t.v.msg_name >> \notin DOMAIN env.files
      THEN Err("Could not build child")
    ELSE Bind(parse_message_definitions(env.files[<< t.v.pkg_name, t.v.msg_name >>], t.v),
              LAMBDA msg_parsed :
                IF ~IsOk(msg_parsed) THEN msg_parsed ELSE Ok(msg_parsed.v[1])))

\* MsgSpec::get_message_definition
get_message_definition(env, topic_type, parent_package) ==
  Bind(LookupType(topic_type, parent_package), LAMBDA t :
    IF ~IsOk(t) THEN t
    ELSE IF t.v.pkg_name \notin env.share
      THEN Err("Could not find package share directory for package")
    ELSE IF << t.v.pkg_name, t.v.msg_name >> \notin DOMAIN env.files
      THEN Err("No such file or directory")
    ELSE Bind(parse_message_definitions(env.files[<< t.v.pkg_name, t.v.msg_name >>], t.v),
              LAMBDA msg_parsed :
                IF ~IsOk(msg_parsed) THEN msg_parsed ELSE Ok(msg_parsed.v[1])))

\* RecordLookup with a definition that was fetched before not fetched again
RecordLookup_mutCached(log, t) ==
  IF \E k \in 1..Len(log) : log[k] = t THEN log ELSE Append(log, t)

\* every call of get_message_definition asks the index and reads the file:
\* the log of the definitions looked up, in order
RecordLookup(log, t) == Append(log, t)

\* ShouldExpand with a type that an enclosing node already has left out
ShouldExpand_mutVisited(field, stack) ==
  /\ field.field_type.id = "Other"
  /\ \A d \in 1..Len(stack) :
       stack[d].msg_def.msg_type.msg_name # field.field_type.msg_name

\* ShouldExpand with array fields left out
ShouldExpand_mutSkipArrays(field, stack) ==
  field.field_type.id = "Other" /\ ~field.is_array

\* `if field.type_().id() == &BuiltinType::Other` in the loop of
\* new_with_parent_package; stack holds the enclosing calls
ShouldExpand(field, stack) == field.field_type.id = "Other"

\* PushChild with the child put in front
PushChild_mutPrepend(children, child) == << child >> \o children

\* children.push(Arc::new(child))
PushChild(children, child) == Append(children, child)

(***************************************************************************)
(* lib.rs: the crate-root ROSType and ROSField, which abort where the      *)
(* ros_introspection module returns an error                               *)
(***************************************************************************)
\* the match arms of to_builtin_type in lib.rs
ROSBuiltinWords ==
  { << <<"b","o","o","l">>, "Bool" >>,
    << <<"b","y","t","e">>, "Byte" >>,
    << <<"c","h","a","r">>, "Char" >>,
    << <<"u","i","n","t","8">>, "Uint8" >>,
    << <<"u","i","n","t","1","6">>, "Uint16" >>,
    << <<"u","i","n","t","3","2">>, "Uint32" >>,
    << <<"u","i","n","t","6","4">>, "Uint64" >>,
    << <<"i","n","t","8">>, "Int8" >>,
    << <<"i","n","t","1","6">>, "Int16" >>,
    << <<"i","n","t","3","2">>, "Int32" >>,
    << <<"i","n","t","6","4">>, "Int64" >>,
    << <<"f","l","o","a","t","3","2">>, "Float32" >>,
    << <<"f","l","o","a","t","6","4">>, "Float64" >>,
    << <<"t","i","m","e">>, "Time" >>,
    << <<"d","u","r","a","t","i","o","n">>, "Duration" >>,
    << <<"s","t","r","i","n","g">>, "String" >> }

\* to_builtin_type of lib.rs
ros_to_builtin_type(s) ==
  IF \E w \in ROSBuiltinWords : w[1] = s
  THEN (CHOOSE w \in ROSBuiltinWords : w[1] = s)[2]
  ELSE "Other"

SrvInfix == <<"s","r","v","/">>

\* ROSType::new: the name is cut at its first "/"; a leading msg/ or srv/ is
\* dropped from the part after it
ROSTypeNew(name) ==
  LET pos == FirstIn(name, 1, {"/"})
      after == Suffix(name, pos + 1)
      msg_name == IF pos = 0 THEN name
                  ELSE IF starts_with(after, MsgInfix) \/ starts_with(after, SrvInfix)
                  THEN Suffix(after, 5)
                  ELSE after
  IN  [base_name |-> name,
       pkg_name |-> IF pos = 0 THEN EmptyStr ELSE Prefix(name, pos - 1),
       msg_name |-> msg_name,
       id |-> ros_to_builtin_type(msg_name),
       hash |-> calculate_hash(name)]

\* ROSType::set_pkg_name: the type with its package set, or the panic of
\* `assert!(self.pkg_name.is_empty())`. msg_name is cut from the new
\* base_name behind the package and its "/"; id is left as it is.
set_pkg_name(t, new_pkg) ==
  IF t.pkg_name # EmptyStr
  THEN Panic("assertion failed: self.pkg_name.is_empty()")
  ELSE Bind(new_pkg \o <<"/">> \o t.base_name, LAMBDA base :
         Ok([t EXCEPT !.base_name = base,
                      !.pkg_name = new_pkg,
                      !.msg_name = Suffix(base, Len(new_pkg) + 2),
                      !.hash = calculate_hash(base)]))

\* the array part of ROSField::new_with_definition:
\* << type string, is_array, array_size >>. The `let type_ = what[1]` of the
\* array branch declares a new local that ends with the branch, so the type
\* string that reaches ROSType::new is the whole type token.
ROSFieldArray(type_) ==
  LET b == ArrayBracket(type_)
      digits == SubSeq(type_, b + 1, DigitRunEnd(type_, b + 1))
  IN  IF b = 0 THEN << type_, FALSE, Ok(1) >>
      ELSE IF digits = EmptyStr THEN << type_, TRUE, Ok(-1) >>
      ELSE IF Len(digits) > 19 THEN << type_, TRUE, Panic("ParseIntError") >>
      ELSE << type_, TRUE, Ok(DecimalValue(digits)) >>

\* the constant / comment part of ROSField::new_with_definition:
\* << is_constant, value >> from the text after the field name
ROSFieldValue(type_, begin) ==
  LET w == FirstNonWhite(begin)
      rest == Suffix(begin, w + 1)
  IN  IF w = 0 THEN << FALSE, EmptyStr >>
      ELSE IF begin[w] = "=" THEN
        << TRUE, trim(IF type_ = StringWord THEN rest ELSE CutAtComment(rest)) >>
      ELSE IF begin[w] = "#" THEN << FALSE, EmptyStr >>
      ELSE << FALSE, CutAtComment(begin) >>

\* ROSField::new_with_definition, given the positions found by the first two
\* regexes
ROSFieldAt(definition, ts, te, fs, fe) ==
  Bind(ROSFieldArray(SubSeq(definition, ts, te)), LAMBDA arr :
    Bind(ROSFieldValue(arr[1], Suffix(definition, fe + 1)), LAMBDA cv :
      IF IsPanic(arr[3]) THEN arr[3]
      ELSE Ok([fieldname |-> SubSeq(definition, fs, fe),
               field_type |-> ROSTypeNew(arr[1]),
               is_array |-> arr[2],
               array_size |-> arr[3].v,
               is_constant |-> cv[1],
               value |-> cv[2]])))

\* ROSField::new_with_definition: Ok(field), or the panic that aborts it
ROSFieldNew(definition) ==
  LET ts == FirstIn(definition, 1, Letter)
      te == TypeEndAt(definition, ts)
      fs == FirstIn(definition, te + 1, Letter)
      fe == IdentRunEnd(definition, fs + 1)
  IN  IF ts = 0 THEN Panic("Bad type when parsing field")
      ELSE IF fs = 0 THEN Panic("Bad field when parsing field")
      ELSE ROSFieldAt(definition, ts, te, fs, fe)

(***************************************************************************)
(* Inputs of the type constructor: names built from a few tokens           *)
(***************************************************************************)
MaxTokens == 3

Tokens ==
  { <<"p","k","/">>, <<"m","s","g","/">>, <<"s","r","v","/">>, <<"H","d">>,
    <<"a">>, <<"/">>, <<"1">>, <<"i","n","t","3","2">>, <<"t","i","m","e">> }

RECURSIVE NamesOfLen(_)
NamesOfLen(n) ==
  IF n = 0 THEN {EmptyStr}
  ELSE {t \o r : t \in Tokens, r \in NamesOfLen(n - 1)}

Names == UNION {NamesOfLen(n) : n \in 0..MaxTokens}

Hints == {EmptyStr, <<"z","z">>}

\* the names a constructed type is compared with
OtherNames ==
  { EmptyStr, <<"H","d">>, <<"p","k","/","H","d">>,
    <<"p","k","/","m","s","g","/","H","d">>, <<"p","k","/","s","r","v","/","H","d">>,
    <<"i","n","t","3","2">>, <<"p","k","/","i","n","t","3","2">>,
    <<"a","/","H","d">>, <<"t","i","m","e">>, <<"1","p","k","/","H","d">> }

None == [tag |-> "None"]

(***************************************************************************)
(* Inputs of parse_message_definitions: bundles of a few blocks            *)
(***************************************************************************)
MaxBlocks == 3

Hd == <<"H","d">>
PkHd == <<"p","k","/","H","d">>
QqHd == <<"q","q","/","H","d">>
PkMsgHd == <<"p","k","/","m","s","g","/","H","d">>
Int32 == <<"i","n","t","3","2">>
PkInt32 == <<"p","k","/","i","n","t","3","2">>
PkRt == <<"p","k","/","R","t">>
QqRt == <<"q","q","/","R","t">>

HeaderLine(t) == MsgHeader \o <<" ">> \o t \o << NL >>
FieldLine(t, n) == t \o <<" ">> \o n \o << NL >>
Indent == <<" "," ">>

BlockTexts ==
  { \* header pk/Hd, a field of an unqualified type no block defines
    HeaderLine(PkHd) \o FieldLine(<<"Z","z">>, <<"w">>),
    \* header qq/Hd, a field of the unqualified type Hd
    HeaderLine(QqHd) \o FieldLine(Hd, <<"x">>),
    \* no header; a comment line, a blank line, an unqualified and a
    \* qualified field
    <<"#"," ","c", NL, NL>> \o FieldLine(Hd, <<"x">>) \o FieldLine(QqHd, <<"z">>),
    \* a block named like a builtin, with a builtin field
    HeaderLine(PkInt32) \o FieldLine(Int32, <<"y">>),
    \* a line that is no field
    <<"?", NL>>,
    \* an indented header with the msg/ infix, no fields
    Indent \o HeaderLine(PkMsgHd) }

SeparatorLine == Separator \o << NL >>

RECURSIVE JoinBlocks(_)
JoinBlocks(bs) ==
  IF bs = << >> THEN EmptyStr
  ELSE IF Len(bs) = 1 THEN bs[1]
  ELSE bs[1] \o SeparatorLine \o JoinBlocks(Tail(bs))

Bundles ==
  {JoinBlocks(bs) : bs \in UNION {[1..n -> BlockTexts] : n \in 0..MaxBlocks}}

RootNames == {EmptyStr, PkRt, QqRt}

(***************************************************************************)
(* Inputs of the field parser: a line written as                           *)
(*   lead type suffix " " fname rest                                       *)
(* where each piece is drawn from a few texts and may be empty             *)
(***************************************************************************)
MaxRest == 3

RestTokens == { <<" ">>, <<"=">>, <<"#">>, <<"5">>, <<"a">> }

RECURSIVE RestsOfLen(_)
RestsOfLen(n) ==
  IF n = 0 THEN {EmptyStr}
  ELSE {t \o r : t \in RestTokens, r \in RestsOfLen(n - 1)}

Rests == UNION {RestsOfLen(n) : n \in 0..MaxRest}

\* text in front of the type token
Leads == { EmptyStr, <<"1"," ">> }

FieldTypes == { EmptyStr, Int32, StringWord, PkHd }

\* an array suffix and the length it is written to stand for
ArraySuffixes ==
  { << EmptyStr, 1 >>, << <<"[","]">>, -1 >>, << <<"[","3","]">>, 3 >>,
    << <<"[","0","]">>, 0 >> }

FieldNames == { EmptyStr, <<"x">> }

FieldInputs ==
  [lead : Leads, type : FieldTypes, suffix : ArraySuffixes,
   fname : FieldNames, rest : Rests]

DefinitionOf(in) ==
  in.lead \o in.type \o in.suffix[1] \o <<" ">> \o in.fname \o in.rest

(***************************************************************************)
(* Inputs of Message::new: blocks of a few lines, each line with what it   *)
(* is written to be                                                        *)
(***************************************************************************)
MaxLines == 3

MsgLineChoices ==
  { [text |-> EmptyStr, kind |-> "blank", what |-> EmptyStr],
    [text |-> <<" ","#","c">>, kind |-> "comment", what |-> EmptyStr],
    [text |-> MsgHeader \o <<" ">> \o PkHd, kind |-> "header", what |-> PkHd],
    [text |-> MsgHeader \o <<" ">> \o QqHd, kind |-> "header", what |-> QqHd],
    \* two blanks after the colon
    [text |-> MsgHeader \o <<" "," ">> \o PkHd, kind |-> "header", what |-> PkHd],
    \* a header without a type
    [text |-> MsgHeader, kind |-> "header", what |-> EmptyStr],
    [text |-> Int32 \o <<" ","x">>, kind |-> "field", what |-> <<"x">>],
    [text |-> <<" ">> \o Hd \o <<" ","y">>, kind |-> "field", what |-> <<"y">>],
    \* a line that is no field
    [text |-> <<"?">>, kind |-> "field", what |-> EmptyStr] }

MsgInputs == UNION {[1..n -> MsgLineChoices] : n \in 0..MaxLines}

RECURSIVE BlockOf(_)
BlockOf(in) ==
  IF in = << >> THEN EmptyStr
  ELSE Head(in).text \o << NL >> \o BlockOf(Tail(in))

(***************************************************************************)
(* Inputs of split_multiple_message_definitions: texts of a few lines,     *)
(* each line with whether it is written to be a separator                  *)
(***************************************************************************)
MaxSplitLines == 3

Equals7 == <<"=","=","=","=","=","=","=">>

SplitLineChoices ==
  { [text |-> <<"a">>, sep |-> FALSE],
    [text |-> <<" ","b"," ">>, sep |-> FALSE],
    [text |-> EmptyStr, sep |-> FALSE],
    [text |-> Separator, sep |-> TRUE],
    \* ten "=", indented
    [text |-> <<" ">> \o Separator \o <<"=","="," ">>, sep |-> TRUE],
    [text |-> Equals7, sep |-> FALSE],
    \* eight "=" and a note
    [text |-> Separator \o <<" ","n">>, sep |-> FALSE] }

SplitInputs == UNION {[1..n -> SplitLineChoices] : n \in 0..MaxSplitLines}

(***************************************************************************)
(* Inputs of MsgSpec::new: the message files of package pk. Each of the    *)
(* files Aa.msg, Bb.msg, Cc.msg is missing, unparsable, or a list of       *)
(* fields, each field written as a reference to a type.                    *)
(***************************************************************************)
MaxRefs == 2
MaxDepth == 4

Pk == <<"p","k">>
Aa == <<"A","a">>
Bb == <<"B","b">>
Cc == <<"C","c">>

\* a reference: the type text of the field line, and the file it is written
\* to stand for ("" for a builtin, "D" for a type of a package without a
\* share directory)
RefText(r) ==
  CASE r = "i" -> Int32
    [] r = "A" -> Aa
    [] r = "B" -> Bb
    [] r = "C" -> Pk \o <<"/">> \o Cc
    [] r = "Cs" -> Cc \o <<"[","]">>
    [] r = "D" -> <<"q","q","/","D","d">>

RefTarget(r) ==
  CASE r = "i" -> ""
    [] r = "A" -> "A"
    [] r = "B" -> "B"
    [] r = "C" -> "C"
    [] r = "Cs" -> "C"
    [] r = "D" -> "D"

FileName(n) == CASE n = "A" -> Aa [] n = "B" -> Bb [] n = "C" -> Cc

MissingFile == [kind |-> "missing", refs |-> << >>]
BadFile == [kind |-> "bad", refs |-> << >>]
FileOf(refs) == [kind |-> "refs", refs |-> refs]

RootRefs == {"i", "B", "Cs", "D"}

AContents ==
  {MissingFile} \cup {FileOf(rs) : rs \in UNION {[1..n -> RootRefs] : n \in 0..MaxRefs}}

BContents ==
  { MissingFile, BadFile, FileOf(<<"i">>), FileOf(<<"C">>), FileOf(<<"A">>),
    FileOf(<<"B">>) }

CContents == { MissingFile, FileOf(<< >>), FileOf(<<"i">>), FileOf(<<"B">>) }

SpecInputs == [A : AContents, B : BContents, C : CContents]

FieldNumbers == <<"1","2","3","4">>

RECURSIVE RefLines(_, _)
RefLines(refs, k) ==
  IF k > Len(refs) THEN EmptyStr
  ELSE RefText(refs[k]) \o <<" ","f", FieldNumbers[k], NL>> \o RefLines(refs, k + 1)

FileText(c) == IF c.kind = "bad" THEN <<"?", NL>> ELSE RefLines(c.refs, 1)

EnvOf(in) ==
  [share |-> {Pk},
   files |-> [key \in {<< Pk, FileName(n) >> : n \in {m \in {"A","B","C"} : in[m].kind # "missing"}}
                |-> FileText(in[CHOOSE n \in {"A","B","C"} : FileName(n) = key[2]])]]

\* the topic type MsgSpec::new is called with
RootTopic == Pk \o <<"/">> \o Aa

(***************************************************************************)
(* Inputs of ROSType::set_pkg_name: a few types and a few packages         *)
(***************************************************************************)
MaxSets == 3

ROSNames ==
  { EmptyStr, Hd, PkHd, Int32, <<"a">>, <<"R","t">>, <<"t","i","m","e">> }

NewPackages == { EmptyStr, Pk, <<"q","q">>, <<"z","z">> }

VARIABLES
  name,        \* the raw type name handed to the constructor
  hint,        \* the parent package handed to the constructor
  ty,          \* Result of Type::new_with_parent_package(name, hint)
  other,       \* a second type, Type::new(n) for some n
  eq,          \* ty == other
  pcT,         \* "init", "built", "compared"; "idle" outside SpecType
  multi_def,   \* argument of parse_message_definitions
  root_type,   \* argument of parse_message_definitions
  parts,       \* local of parse_message_definitions
  i,           \* index of the first loop, 1-based: block i is parts[i]
  parsed_msgs, \* local of parse_message_definitions
  known_type,  \* local of parse_message_definitions
  strong,      \* the strong count of the Arc of each message of parsed_msgs
  j,           \* index of the second loop into parsed_msgs
  result,      \* what parse_message_definitions returned: Ok, Err or Panic
  pc,          \* "start", "parse", "resolve", "done"; "idle" outside Spec
  field_in,    \* the pieces the field line is written from
  field_def,   \* the line handed to new_with_definition
  field_res,   \* what Field:: or ROSField::new_with_definition returned
  pcF,         \* "init", "field", "rosfield"; "idle" outside SpecField
  msg_in,      \* the lines the block is written from
  msg_def,     \* the block handed to Message::new
  msg_res,     \* what Message::new returned: Ok, Err or Panic
  pcM,         \* "init", "done"; "idle" outside SpecMessage
  split_in,    \* the lines the text is written from
  split_def,   \* the text handed to split_multiple_message_definitions
  split_res,   \* the blocks it returned
  pcS,         \* "init", "done"; "idle" outside SpecSplit
  spec_in,     \* what each message file is written to hold
  env,         \* the ament index and the message files
  stack,       \* the calls of new_with_parent_package in progress
  lookups,     \* the definitions looked up so far, in order
  spec_res,    \* what MsgSpec::new returned: Ok, Err or Panic
  pcK,         \* "run", "done"; "idle" outside SpecMsgSpec
  ros_ty,      \* a ROSType value
  ros_log,     \* the set_pkg_name calls made on it: argument and outcome
  pcR          \* "run", "aborted"; "idle" outside SpecROSType

typeVars == << name, hint, ty, other, eq, pcT >>
parseVars ==
  << multi_def, root_type, parts, i, parsed_msgs, known_type, strong, j, result, pc >>

fieldVars == << field_in, field_def, field_res, pcF >>
msgVars == << msg_in, msg_def, msg_res, pcM >>

splitVars == << split_in, split_def, split_res, pcS >>
specVars == << spec_in, env, stack, lookups, spec_res, pcK >>
rosVars == << ros_ty, ros_log, pcR >>
moreVars == << splitVars, specVars, rosVars >>

vars == << typeVars, parseVars, fieldVars, msgVars, moreVars >>

TypeIdle ==
  /\ name = EmptyStr
  /\ hint = EmptyStr
  /\ ty = None
  /\ other = None
  /\ eq = FALSE
  /\ pcT = "idle"

ParseIdle ==
  /\ multi_def = EmptyStr
  /\ root_type = None
  /\ parts = << >>
  /\ i = 0
  /\ parsed_msgs = << >>
  /\ known_type = << >>
  /\ strong = << >>
  /\ j = 1
  /\ result = None
  /\ pc = "idle"

FieldIdle ==
  /\ field_in = None
  /\ field_def = EmptyStr
  /\ field_res = None
  /\ pcF = "idle"

MessageIdle ==
  /\ msg_in = << >>
  /\ msg_def = EmptyStr
  /\ msg_res = None
  /\ pcM = "idle"

SplitIdle ==
  /\ split_in = << >>
  /\ split_def = EmptyStr
  /\ split_res = None
  /\ pcS = "idle"

SpecIdle ==
  /\ spec_in = None
  /\ env = None
  /\ stack = << >>
  /\ lookups = << >>
  /\ spec_res = None
  /\ pcK = "idle"

ROSIdle ==
  /\ ros_ty = None
  /\ ros_log = << >>
  /\ pcR = "idle"

MoreIdle == SplitIdle /\ SpecIdle /\ ROSIdle

(***************************************************************************)
(* Type construction and comparison                                        *)
(***************************************************************************)
TypeInit ==
  /\ name \in Names
  /\ hint \in Hints
  /\ ty = None
  /\ other = None
  /\ eq = FALSE
  /\ pcT = "init"
  /\ ParseIdle
  /\ FieldIdle
  /\ MessageIdle
  /\ MoreIdle

\* let t = Type::new_with_parent_package(name, hint)
NewType ==
  /\ pcT = "init"
  /\ ty' = new_with_parent_package(name, hint)
  /\ pcT' = "built"
  /\ UNCHANGED << name, hint, other, eq, parseVars, fieldVars, msgVars, moreVars >>

\* Type::new(n) for every n of OtherNames
OtherResults == {TypeNew(n) : n \in OtherNames}

\* let o = Type::new(n)?; t == o
CompareWith(r) ==
  /\ pcT = "built"
  /\ IsOk(ty) /\ IsOk(r)
  /\ other' = r.v
  /\ eq' = TypeEq(ty.v, r.v)
  /\ pcT' = "compared"
  /\ UNCHANGED << name, hint, ty, parseVars, fieldVars, msgVars, moreVars >>

TypeNext == NewType \/ \E r \in OtherResults : CompareWith(r)

SpecType == TypeInit /\ [][TypeNext]_vars

(***************************************************************************)
(* parse_message_definitions, one action per loop iteration                *)
(***************************************************************************)
RootTypes == {TypeNew(n).v : n \in RootNames}

Init ==
  /\ multi_def \in Bundles
  /\ root_type \in RootTypes
  /\ parts = << >>
  /\ i = 0
  /\ parsed_msgs = << >>
  /\ known_type = << >>
  /\ strong = << >>
  /\ j = 1
  /\ result = None
  /\ pc = "start"
  /\ TypeIdle
  /\ FieldIdle
  /\ MessageIdle
  /\ MoreIdle

\* let parts = split_multiple_message_definitions(multi_def); the loop then
\* starts at the last block
Split ==
  /\ pc = "start"
  /\ parts' = split_multiple_message_definitions(multi_def)
  /\ i' = Len(parts')
  /\ pc' = "parse"
  /\ UNCHANGED << multi_def, root_type, parsed_msgs, known_type, strong, j, result,
                  typeVars, fieldVars, msgVars, moreVars >>

\* one iteration of `for i in (0..parts.len()).rev()`; a failure of
\* Message::new returns at once
ParseBlock ==
  /\ pc = "parse"
  /\ i >= 1
  /\ \E r \in {ParseBlockOf(parts[i], i, root_type)} :
       IF IsOk(r)
       THEN /\ parsed_msgs' = Append(parsed_msgs, r.v)
            /\ known_type' = Append(known_type, r.v.msg_type)
            /\ strong' = Append(strong, PushedStrong)
            /\ i' = i - 1
            /\ pc' = IF i = 1 THEN "resolve" ELSE "parse"
            /\ UNCHANGED result
       ELSE /\ result' = r
            /\ pc' = "done"
            /\ UNCHANGED << parsed_msgs, known_type, strong, i >>
  /\ UNCHANGED << multi_def, root_type, parts, j, typeVars, fieldVars, msgVars, moreVars >>

\* one iteration of `for msg in &mut parsed_msgs`; a message that is not
\* solely owned returns an error
ResolveMsg ==
  /\ pc = "resolve"
  /\ j <= Len(parsed_msgs)
  /\ \E g \in {get_mut(strong[j], parsed_msgs[j])} :
       IF IsOk(g)
       THEN /\ parsed_msgs' =
                 [parsed_msgs EXCEPT ![j] = ResolveMessage(g.v, known_type, root_type)]
            /\ j' = j + 1
            /\ UNCHANGED << result, pc >>
       ELSE /\ result' = g
            /\ pc' = "done"
            /\ UNCHANGED << parsed_msgs, j >>
  /\ UNCHANGED << multi_def, root_type, parts, i, known_type, strong,
                  typeVars, fieldVars, msgVars, moreVars >>

\* parsed_msgs.reverse(); Ok(parsed_msgs)
Finish ==
  /\ pc = "resolve"
  /\ j > Len(parsed_msgs)
  /\ result' = Ok(Reverse(parsed_msgs))
  /\ pc' = "done"
  /\ UNCHANGED << multi_def, root_type, parts, i, parsed_msgs, known_type, strong, j,
                  typeVars, fieldVars, msgVars, moreVars >>

Next == Split \/ ParseBlock \/ ResolveMsg \/ Finish

Spec == Init /\ [][Next]_vars

(***************************************************************************)
(* The field parsers on one line                                           *)
(***************************************************************************)
FieldInit ==
  /\ field_in \in FieldInputs
  /\ field_def = DefinitionOf(field_in)
  /\ field_res = None
  /\ pcF = "init"
  /\ TypeIdle
  /\ ParseIdle
  /\ MessageIdle
  /\ MoreIdle

\* Field::new_with_definition(field_def)
ParseField ==
  /\ pcF = "init"
  /\ field_res' = new_with_definition(field_def)
  /\ pcF' = "field"
  /\ UNCHANGED << field_in, field_def, typeVars, parseVars, msgVars, moreVars >>

\* ROSField::new_with_definition(field_def)
ParseROSField ==
  /\ pcF = "init"
  /\ field_res' = ROSFieldNew(field_def)
  /\ pcF' = "rosfield"
  /\ UNCHANGED << field_in, field_def, typeVars, parseVars, msgVars, moreVars >>

FieldNext == ParseField \/ ParseROSField

SpecField == FieldInit /\ [][FieldNext]_vars

(***************************************************************************)
(* Message::new on one block                                               *)
(***************************************************************************)
MessageInit ==
  /\ msg_in \in MsgInputs
  /\ msg_def = BlockOf(msg_in)
  /\ msg_res = None
  /\ pcM = "init"
  /\ TypeIdle
  /\ ParseIdle
  /\ FieldIdle
  /\ MoreIdle

\* Message::new(msg_def)
NewMessage ==
  /\ pcM = "init"
  /\ msg_res' = MessageNew(msg_def)
  /\ pcM' = "done"
  /\ UNCHANGED << msg_in, msg_def, typeVars, parseVars, fieldVars, moreVars >>

MessageNext == NewMessage

SpecMessage == MessageInit /\ [][MessageNext]_vars

(***************************************************************************)
(* split_multiple_message_definitions on one text                          *)
(***************************************************************************)
SplitInit ==
  /\ split_in \in SplitInputs
  /\ split_def = BlockOf(split_in)
  /\ split_res = None
  /\ pcS = "init"
  /\ TypeIdle
  /\ ParseIdle
  /\ FieldIdle
  /\ MessageIdle
  /\ SpecIdle
  /\ ROSIdle

\* split_multiple_message_definitions(split_def)
SplitText ==
  /\ pcS = "init"
  /\ split_res' = split_multiple_message_definitions(split_def)
  /\ pcS' = "done"
  /\ UNCHANGED << split_in, split_def, typeVars, parseVars, fieldVars, msgVars, specVars, rosVars >>

SplitNext == SplitText

SpecSplit == SplitInit /\ [][SplitNext]_vars

(***************************************************************************)
(* MsgSpec::new, one action per step of the recursion of                   *)
(* new_with_parent_package. A frame of the stack is a call that has not    *)
(* looked its definition up yet (call = TRUE) or one in its loop over the  *)
(* fields, at field k.                                                     *)
(***************************************************************************)
CallFrame(topic_type, parent_package) ==
  [call |-> TRUE, topic_type |-> topic_type, parent_package |-> parent_package,
   msg_def |-> None, k |-> 0, children |-> << >>]

LoopFrame(f, definition) ==
  [f EXCEPT !.call = FALSE, !.msg_def = definition, !.k = 1]

Top == stack[Len(stack)]
Below == SubSeq(stack, 1, Len(stack) - 1)

\* MsgSpec::new(RootTopic) has been called
SpecInit ==
  /\ spec_in \in SpecInputs
  /\ env = EnvOf(spec_in)
  /\ stack = << CallFrame(RootTopic, EmptyStr) >>
  /\ lookups = << >>
  /\ spec_res = None
  /\ pcK = "run"
  /\ TypeIdle
  /\ ParseIdle
  /\ FieldIdle
  /\ MessageIdle
  /\ SplitIdle
  /\ ROSIdle

\* let msg_def = Self::get_message_definition(topic_type, parent_package)?;
\* a failure returns from every enclosing call
Enter ==
  /\ pcK = "run"
  /\ stack # << >>
  /\ Top.call
  /\ \E t \in {LookupType(Top.topic_type, Top.parent_package).v} :
       lookups' = RecordLookup(lookups, << t.pkg_name, t.msg_name >>)
  /\ \E r \in {get_message_definition(env, Top.topic_type, Top.parent_package)} :
       IF IsOk(r)
       THEN /\ stack' = Append(Below, LoopFrame(Top, r.v))
            /\ UNCHANGED << spec_res, pcK >>
       ELSE /\ stack' = << >>
            /\ spec_res' = r
            /\ pcK' = "done"
  /\ UNCHANGED << spec_in, env, typeVars, parseVars, fieldVars, msgVars, splitVars, rosVars >>

\* one iteration of `for field in msg_def.fields()`: a field of kind Other
\* starts a call for its type with the package of this message as parent
Step ==
  /\ pcK = "run"
  /\ stack # << >>
  /\ ~Top.call
  /\ Top.k <= Len(Top.msg_def.fields)
  /\ LET field == Top.msg_def.fields[Top.k]
         next == [Top EXCEPT !.k = @ + 1]
     IN  IF ShouldExpand(field, stack)
         THEN /\ Len(stack) < MaxDepth
              /\ stack' = Append(Below, next) \o
                   << CallFrame(field.field_type.base_name,
                                Top.msg_def.msg_type.pkg_name) >>
         ELSE stack' = Append(Below, next)
  /\ UNCHANGED << spec_in, env, lookups, spec_res, pcK,
                  typeVars, parseVars, fieldVars, msgVars, splitVars, rosVars >>

\* Ok(Self { data: msg_def, children }): the caller pushes the child, the
\* outermost call returns the tree
Return ==
  /\ pcK = "run"
  /\ stack # << >>
  /\ ~Top.call
  /\ Top.k > Len(Top.msg_def.fields)
  /\ LET node == [data |-> Top.msg_def, children |-> Top.children]
     IN  IF Len(stack) = 1
         THEN /\ spec_res' = Ok(node)
              /\ stack' = << >>
              /\ pcK' = "done"
         ELSE /\ stack' = [Below EXCEPT ![Len(stack) - 1].children = PushChild(@, node)]
              /\ UNCHANGED << spec_res, pcK >>
  /\ UNCHANGED << spec_in, env, lookups,
                  typeVars, parseVars, fieldVars, msgVars, splitVars, rosVars >>

SpecNext == Enter \/ Step \/ Return

\* Enter can be taken exactly when the innermost call has not looked its
\* definition up yet
EnterReady == pcK = "run" /\ stack # << >> /\ Top.call

\* the program keeps running: a step that can be taken is taken. The
\* fairness of Enter is WF_vars(Enter) with ENABLED <<Enter>>_vars written
\* as its guard EnterReady.
SpecFairness ==
  /\ WF_vars(Step)
  /\ WF_vars(Return)
  /\ ([]<>~EnterReady \/ []<><<Enter>>_vars)

SpecMsgSpec == SpecInit /\ [][SpecNext]_vars /\ SpecFairness

(***************************************************************************)
(* ROSType::new followed by calls of set_pkg_name on the value             *)
(***************************************************************************)
ROSInit ==
  /\ ros_ty \in {ROSTypeNew(n) : n \in ROSNames}
  /\ ros_log = << >>
  /\ pcR = "run"
  /\ TypeIdle
  /\ ParseIdle
  /\ FieldIdle
  /\ MessageIdle
  /\ SplitIdle
  /\ SpecIdle

\* ros_ty.set_pkg_name(new_pkg); a failed assertion aborts
SetPkgName(new_pkg) ==
  /\ pcR = "run"
  /\ Len(ros_log) < MaxSets
  /\ \E r \in {set_pkg_name(ros_ty, new_pkg)} :
       /\ ros_log' = Append(ros_log, [arg |-> new_pkg,
                                       had_pkg |-> ros_ty.pkg_name # EmptyStr,
                                       ok |-> IsOk(r)])
       /\ IF IsOk(r)
          THEN ros_ty' = r.v /\ UNCHANGED pcR
          ELSE pcR' = "aborted" /\ UNCHANGED ros_ty
  /\ UNCHANGED << typeVars, parseVars, fieldVars, msgVars, splitVars, specVars >>

ROSNext == \E new_pkg \in NewPackages : SetPkgName(new_pkg)

SpecROSType == ROSInit /\ [][ROSNext]_vars

(***************************************************************************)
(* Properties of parse_message_definitions (checked under Spec)            *)
(***************************************************************************)
Returned == pc = "done" /\ IsOk(result)

\* the blocks ps, each parsed on its own
RECURSIVE ParsedAlone(_)
ParsedAlone(ps) ==
  IF ps = << >> THEN << >>
  ELSE << MessageNew(Head(ps)) >> \o ParsedAlone(Tail(ps))

BlockResults == ParsedAlone(parts)

\* everything of a field but its type
FieldShape(f) ==
  << f.fieldname, f.is_array, f.array_size, f.is_constant, f.value >>

\* the blocks (by position in the bundle) whose returned type has the short
\* name of the type t
Candidates(t) ==
  {m \in 1..Len(result.v) : result.v[m].msg_type.msg_name = t.msg_name}

\* C1: for every bundle that parses, the returned list has exactly one
\* Message per block of the splitter, at least one, and the k-th Message is
\* the one parsed from the k-th block (block 0 first).
C1_OneMessagePerBlockInOrder ==
  Returned =>
    \A br \in {BlockResults} :
      /\ Len(result.v) = Len(parts)
      /\ Len(result.v) >= 1
      /\ \A k \in 1..Len(parts) :
           /\ IsOk(br[k])
           /\ Len(result.v[k].fields) = Len(br[k].v.fields)
           /\ \A f \in 1..Len(br[k].v.fields) :
                FieldShape(result.v[k].fields[f]) = FieldShape(br[k].v.fields[f])
           /\ \/ result.v[k].msg_type = br[k].v.msg_type
              \/ k = 1 /\ br[k].v.msg_type.base_name = EmptyStr
                       /\ result.v[k].msg_type = root_type

\* C1 witness: a bundle of at least two different blocks was returned
C1_Witness ==
  /\ Returned
  /\ Len(result.v) >= 2
  /\ result.v[1].msg_type # result.v[2].msg_type
  /\ result.v[1].fields # result.v[2].fields

\* C2: a field with an empty package whose short name matches a known block
\* type is rebound to a matching type of the root type's package if there is
\* one, and otherwise to the type of the matching block that comes last in
\* the bundle.
C2_ResolutionPrefersRootPackage ==
  Returned =>
    \A br \in {BlockResults} :
      \A k \in 1..Len(parts) : \A f \in 1..Len(br[k].v.fields) :
        LET o == br[k].v.fields[f].field_type
            now == result.v[k].fields[f].field_type
            c == Candidates(o)
            pref == {m \in c : result.v[m].msg_type.pkg_name = root_type.pkg_name}
        IN  (o.pkg_name = EmptyStr /\ c # {}) =>
              IF pref # {}
              THEN \E m \in pref : now = result.v[m].msg_type
              ELSE now = result.v[Max(c)].msg_type

\* C2 witness: an unqualified field with two candidates was rebound to the
\* one of the root type's package although another candidate comes later
C2_Witness ==
  /\ Returned
  /\ \E k \in 1..Len(result.v) : \E f \in 1..Len(result.v[k].fields) :
       LET now == result.v[k].fields[f].field_type
           c == Candidates(now)
       IN  /\ MessageNew(parts[k]).v.fields[f].field_type.pkg_name = EmptyStr
           /\ now.pkg_name = root_type.pkg_name
           /\ now.pkg_name # EmptyStr
           /\ Cardinality(c) >= 2
           /\ result.v[Max(c)].msg_type # now

\* C3: an unqualified field whose short name matches no known block type is
\* left exactly as parsed, and the call fails only when a block fails to
\* parse or the root type is unspecified, never because of resolution.
C3_UnmatchedFieldLeftAsParsed ==
  /\ Returned =>
       \A br \in {BlockResults} :
         \A k \in 1..Len(parts) : \A f \in 1..Len(br[k].v.fields) :
           (br[k].v.fields[f].field_type.pkg_name = EmptyStr
              /\ Candidates(br[k].v.fields[f].field_type) = {})
             => result.v[k].fields[f] = br[k].v.fields[f]
  /\ (pc = "done" /\ ~IsOk(result)) =>
       \A br \in {BlockResults} :
         \/ \E k \in 1..Len(parts) : ~IsOk(br[k])
         \/ /\ br[1].v.msg_type.base_name = EmptyStr
            /\ root_type.base_name = EmptyStr

\* C3 witness: a bundle with an unmatched unqualified field was returned,
\* next to an ambiguous one
C3_Witness ==
  /\ Returned
  /\ \E k \in 1..Len(result.v) : \E f \in 1..Len(result.v[k].fields) :
       LET t == result.v[k].fields[f].field_type
       IN  /\ t.pkg_name = EmptyStr
           /\ t.id = "Other"
           /\ Candidates(t) = {}
  /\ \E k \in 1..Len(result.v) : \E f \in 1..Len(result.v[k].fields) :
       Cardinality(Candidates(result.v[k].fields[f].field_type)) >= 2

\* C4 (as claimed): a field whose parsed type is builtin, or has a package,
\* has the same type after resolution.
C4_BuiltinAndQualifiedNeverRebound ==
  Returned =>
    \A br \in {BlockResults} :
      \A k \in 1..Len(parts) : \A f \in 1..Len(br[k].v.fields) :
        LET o == br[k].v.fields[f].field_type
        IN  (o.id # "Other" \/ o.pkg_name # EmptyStr)
              => result.v[k].fields[f].field_type = o

\* C5: the first returned Message has the root type when block 0 has no
\* header and the root type is non-empty; a block 0 with a header keeps its
\* own type; every later block keeps its parsed type, empty when it has no
\* header.
C5_RootTypeOnlyForRootBlock ==
  Returned =>
    \A br \in {BlockResults} :
      \A k \in 1..Len(parts) :
        IF k = 1 /\ br[k].v.msg_type.base_name = EmptyStr
                 /\ root_type.base_name # EmptyStr
        THEN result.v[k].msg_type = root_type
        ELSE result.v[k].msg_type = br[k].v.msg_type

\* C5 witness: block 0 and a later block have no header; the first got the
\* root type and the later one kept the empty type
C5_Witness ==
  /\ Returned
  /\ MessageNew(parts[1]).v.msg_type.base_name = EmptyStr
  /\ result.v[1].msg_type = root_type
  /\ root_type.base_name # EmptyStr
  /\ \E k \in 2..Len(result.v) : result.v[k].msg_type.base_name = EmptyStr

\* C6 (as claimed): when block 0 has an empty parsed type and the root type
\* is empty, the call ends by returning an error value.
C6_UnspecifiedTypeIsReturnedError ==
  (pc = "done" /\ root_type.base_name = EmptyStr) =>
    \A br \in {BlockResults} :
      ((\A k \in 1..Len(parts) : IsOk(br[k]))
         /\ br[1].v.msg_type.base_name = EmptyStr)
        => IsErr(result)

(***************************************************************************)
(* Properties of Type (checked under SpecType)                             *)
(***************************************************************************)
\* C7: two types are equal exactly when their base_name strings are equal,
\* whatever their package, short name and builtin kind.
C7_EqualityKeyedOnBaseName ==
  pcT = "compared" => (eq <=> ty.v.base_name = other.base_name)

\* C7 witness: two unequal types with the same package, short name and kind
C7_Witness ==
  /\ pcT = "compared"
  /\ ~eq
  /\ ty.v.pkg_name = other.pkg_name
  /\ ty.v.pkg_name # EmptyStr
  /\ ty.v.msg_name = other.msg_name
  /\ ty.v.id = other.id

HasSlash(s) == \E p \in 1..Len(s) : s[p] = "/"

\* the text before the first "/" of s
BeforeSlash(s) == Prefix(s, FirstIn(s, 1, {"/"}) - 1)

\* the text after the first "/" of s, a leading "msg/" or "srv/" stripped
AfterSlash(s) ==
  LET r == Suffix(s, FirstIn(s, 1, {"/"}) + 1)
  IN  IF starts_with(r, MsgInfix) \/ starts_with(r, <<"s","r","v","/">>)
      THEN Suffix(r, 5) ELSE r

\* C8 (as claimed): Type::new splits a name at its first "/" into package
\* and short name, a leading "msg/" or "srv/" stripped from the short name; a
\* name without "/" has an empty package and is its own short name; base_name
\* is the input.
C8_SplitAtFirstSlash ==
  (pcT = "built" /\ hint = EmptyStr) =>
    /\ IsOk(ty)
    /\ ty.v.base_name = name
    /\ ty.v.pkg_name = (IF HasSlash(name) THEN BeforeSlash(name) ELSE EmptyStr)
    /\ ty.v.msg_name = (IF HasSlash(name) THEN AfterSlash(name) ELSE name)

\* the vocabulary of the claim: the builtin words and the time / duration
\* aliases
ClaimedKind(s) ==
  IF s = <<"t","i","m","e">> THEN "Time"
  ELSE IF s = <<"d","u","r","a","t","i","o","n">> THEN "Duration"
  ELSE to_builtin_type(s)

\* C9 (as claimed): the builtin kind of a type is the classification of its
\* short name against the closed vocabulary.
C9_KindOfShortName ==
  pcT = "built" => (IsOk(ty) /\ ty.v.id = ClaimedKind(ty.v.msg_name))

\* C10 (as claimed): the package is the hint when the name has no "/" and the
\* kind is Other; it is empty for an unqualified builtin name; for a name
\* with "/" the hint is ignored.
C10_HintOnlyForUnqualifiedOther ==
  pcT = "built" =>
    /\ IsOk(ty)
    /\ (~HasSlash(name) /\ ty.v.id = "Other") => ty.v.pkg_name = hint
    /\ (~HasSlash(name) /\ ty.v.id # "Other") => ty.v.pkg_name = EmptyStr
    /\ HasSlash(name) => ty.v.pkg_name = TypeNew(name).v.pkg_name

\* C11 (as claimed): construction fails with a parse error whenever the name
\* contains "/" and the package/name pattern does not match it; such a name is
\* never accepted as an unqualified name with the hint or an empty package.
C11_UnmatchedQualifiedNameIsError ==
  (pcT = "built" /\ HasSlash(name) /\ msg_datatype_regex(name) = << >>)
    => IsErr(ty)

(***************************************************************************)
(* Properties of the field parsers (checked under SpecField)               *)
(***************************************************************************)
\* the line is "<type><suffix> <name>" followed by nothing or by text that
\* does not continue the name
WellFormedLine ==
  /\ field_in.lead = EmptyStr
  /\ field_in.type # EmptyStr
  /\ field_in.fname # EmptyStr
  /\ field_in.rest # EmptyStr => Head(field_in.rest) \notin IdentChar

\* C12: on "<type>[N] <name>" Field::new_with_definition gives is_array with
\* array_size N and the type Type::new("<type>"); on "<type>[] <name>"
\* is_array with array_size -1; without a suffix is_array is false and
\* array_size is 1; the field name is <name> in all three cases.
C12_ArraySuffixParsed ==
  (pcF = "field" /\ WellFormedLine) =>
    /\ IsOk(field_res)
    /\ field_res.v.fieldname = field_in.fname
    /\ field_res.v.is_array = (field_in.suffix[1] # EmptyStr)
    /\ field_res.v.array_size = field_in.suffix[2]
    /\ field_res.v.field_type = TypeNew(field_in.type).v

\* C12 witness: a sized array of a qualified type has been parsed
C12_Witness ==
  /\ pcF = "field"
  /\ WellFormedLine
  /\ field_in.suffix[2] = 3
  /\ field_in.type = PkHd
  /\ IsOk(field_res)
  /\ field_res.v.is_array
  /\ field_res.v.array_size = 3
  /\ field_res.v.field_type.msg_name = Hd

\* C13 (as claimed): the crate-root ROSField::new_with_definition strips the
\* array suffix before it constructs the type, so an array field has the
\* short name and the builtin kind of the same line without the suffix.
C13_ROSFieldStripsSuffix ==
  (pcF = "rosfield" /\ WellFormedLine /\ field_in.suffix[1] # EmptyStr) =>
    /\ IsOk(field_res)
    /\ field_res.v.field_type.msg_name = ROSTypeNew(field_in.type).msg_name
    /\ field_res.v.field_type.id = ROSTypeNew(field_in.type).id

\* C14 (as claimed): every Field that Field::new_with_definition returns has
\* an array_size that is at least 1 or exactly -1.
C14_ArraySizePositiveOrUnbounded ==
  (pcF = "field" /\ IsOk(field_res)) =>
    (field_res.v.array_size >= 1 \/ field_res.v.array_size = -1)

\* the text of s in front of its first "#", all of s when it has none
BeforeHash(s) ==
  IF FirstIn(s, 1, {"#"}) = 0 THEN s ELSE Prefix(s, FirstIn(s, 1, {"#"}) - 1)

RECURSIVE DropTrailingWhite(_)
DropTrailingWhite(s) ==
  IF s # EmptyStr /\ s[Len(s)] \in White
  THEN DropTrailingWhite(Prefix(s, Len(s) - 1))
  ELSE s

\* the first character after the field name that is not whitespace, "" when
\* there is none
AfterName == field_in.rest
AfterNameChar ==
  IF FirstNonWhite(AfterName) = 0 THEN "" ELSE AfterName[FirstNonWhite(AfterName)]

C16_ConstantValue ==
  (pcF = "field" /\ WellFormedLine /\ AfterNameChar = "=") =>
    /\ IsOk(field_res)
    /\ field_res.v.is_constant
    /\ field_res.v.value =
         (LET text == Suffix(AfterName, FirstNonWhite(AfterName) + 1)
          IN  IF field_in.type = StringWord THEN trim(text)
              ELSE trim(BeforeHash(text)))

\* C16 witness: a string array constant whose value keeps a "#"
C16_Witness ==
  /\ pcF = "field"
  /\ WellFormedLine
  /\ field_in.type = StringWord
  /\ field_in.suffix[1] # EmptyStr
  /\ field_in.rest = <<" ", "=", "#">>
  /\ IsOk(field_res)
  /\ field_res.v.is_constant
  /\ field_res.v.value = <<"#">>

\* C17 (as claimed): the field parser matches at the current position only:
\* a line that does not begin with a type token fails with the error of a
\* missing type, and a line whose type token no field name follows fails with
\* the error of a missing field name; no characters are skipped to find a
\* token later in the line.
C17_StrictLeftToRight ==
  pcF = "field" =>
    /\ (field_def # EmptyStr /\ field_def[1] \notin Letter \cup White)
         => field_res = Err("Bad type when parsing field")
    /\ (/\ field_in.lead = EmptyStr
        /\ field_in.type # EmptyStr
        /\ field_in.fname = EmptyStr
        /\ AfterNameChar \notin Letter)
         => field_res = Err("Bad field when parsing field")

(***************************************************************************)
(* Properties of Message::new (checked under SpecMessage)                  *)
(***************************************************************************)
IsFieldLine(l) == l.kind = "field"
IsHeaderLine(l) == l.kind = "header"

\* the field names written in the block, in the order of their lines
WrittenNames ==
  LET ls == SelectSeq(msg_in, IsFieldLine)
  IN  [k \in 1..Len(ls) |-> ls[k].what]

\* C18: Message::new skips blank and comment lines and parses every other
\* line that is no header as a Field, appended in source order: on success
\* the fields are, one for one and in order, the lines of the block that are
\* neither blank, nor comment, nor header.
C18_OneFieldPerLineInOrder ==
  (pcM = "done" /\ IsOk(msg_res)) =>
    /\ Len(msg_res.v.fields) = Len(WrittenNames)
    /\ \A k \in 1..Len(WrittenNames) :
         msg_res.v.fields[k].fieldname = WrittenNames[k]

\* C18 witness: a block of a comment line and two different field lines
C18_Witness ==
  /\ pcM = "done"
  /\ IsOk(msg_res)
  /\ \E k \in 1..Len(msg_in) : msg_in[k].kind = "comment"
  /\ Len(msg_res.v.fields) = 2
  /\ msg_res.v.fields[1].fieldname # msg_res.v.fields[2].fieldname

\* C19 (as claimed): the type of the message is Type::new of the trimmed
\* remainder of the first header line of the block, whatever later header
\* lines say and however much whitespace follows the colon.
C19_FirstHeaderWins ==
  (pcM = "done" /\ IsOk(msg_res) /\ SelectSeq(msg_in, IsHeaderLine) # << >>) =>
    msg_res.v.msg_type = TypeNew(Head(SelectSeq(msg_in, IsHeaderLine)).what).v

\* C20 (as claimed): Message::new returns a value, Ok or Err, on every block:
\* it returns Err when a field line cannot be parsed and never aborts, not
\* even on a header line that is exactly "MSG:".
C20_FailureIsReturnedError ==
  pcM = "done" =>
    /\ ~IsPanic(msg_res)
    /\ (\E k \in 1..Len(msg_in) : msg_in[k].text = <<"?">>) => IsErr(msg_res)

(***************************************************************************)
(* Properties of split_multiple_message_definitions (checked under         *)
(* SpecSplit)                                                              *)
(***************************************************************************)
\* the blocks as claimed: the trimmed lines between one separator line and
\* the next, each followed by a line feed; cur is the block being written
RECURSIVE ClaimedBlocks(_, _)
ClaimedBlocks(in, cur) ==
  IF in = << >> THEN << cur >>
  ELSE IF Head(in).sep THEN << cur >> \o ClaimedBlocks(Tail(in), EmptyStr)
  ELSE ClaimedBlocks(Tail(in), cur \o trim(Head(in).text) \o << NL >>)

IsSepLine(l) == l.sep

\* C21 (as claimed): the splitter returns one block more than the text has
\* separator lines, the last block being the text after the last separator
\* even when empty; every other line is in exactly one block, lines and
\* blocks in input order.
C21_BlocksAreSeparatorsPlusOne ==
  pcS = "done" =>
    /\ Len(split_res) = Len(SelectSeq(split_in, IsSepLine)) + 1
    /\ split_res = ClaimedBlocks(split_in, EmptyStr)

\* C22 (as claimed): a line is a separator exactly when its trimmed content
\* is nothing but eight or more "=": seven "=" and eight "=" followed by other
\* characters stay in their block.
C22_SeparatorIsRunOfEquals ==
  pcS = "done" =>
    \A k \in 1..Len(split_in) :
      ~split_in[k].sep /\ trim(split_in[k].text) # EmptyStr =>
        \E b \in 1..Len(split_res) :
          \E p \in 1..Len(split_res[b]) :
            starts_with(Suffix(split_res[b], p), trim(split_in[k].text) \o << NL >>)

(***************************************************************************)
(* Properties of MsgSpec::new (checked under SpecMsgSpec). What the files  *)
(* are written to hold (spec_in) says which definitions a build visits,    *)
(* without the parser.                                                     *)
(***************************************************************************)
FileNodes == {"A", "B", "C"}

\* the lookup a visit of the file n stands for
KeyOf(n) == IF n = "D" THEN << <<"q","q">>, <<"D","d">> >> ELSE << Pk, FileName(n) >>

\* the error a visit ends with
ErrorOf(out) ==
  CASE out = "nodir" -> Err("Could not find package share directory for package")
    [] out = "nofile" -> Err("No such file or directory")
    [] out = "badline" -> Err("Bad type when parsing field")

\* the visit of file n, depth first and in field order, up to the first
\* failure: the files visited, how the visit ends, and the tree of names
RECURSIVE WrittenVisit(_), WrittenRefs(_, _)
WrittenVisit(n) ==
  IF n = "D" THEN [log |-> << KeyOf(n) >>, out |-> "nodir", shape |-> None]
  ELSE IF spec_in[n].kind = "missing"
    THEN [log |-> << KeyOf(n) >>, out |-> "nofile", shape |-> None]
  ELSE IF spec_in[n].kind = "bad"
    THEN [log |-> << KeyOf(n) >>, out |-> "badline", shape |-> None]
  ELSE Bind(WrittenRefs(spec_in[n].refs, 1), LAMBDA r :
         [log |-> << KeyOf(n) >> \o r.log, out |-> r.out,
          shape |-> [name |-> FileName(n), children |-> r.shapes]])

WrittenRefs(refs, k) ==
  IF k > Len(refs) THEN [log |-> << >>, out |-> "ok", shapes |-> << >>]
  ELSE IF RefTarget(refs[k]) = "" THEN WrittenRefs(refs, k + 1)
  ELSE Bind(WrittenVisit(RefTarget(refs[k])), LAMBDA c :
         IF c.out # "ok" THEN [log |-> c.log, out |-> c.out, shapes |-> << >>]
         ELSE Bind(WrittenRefs(refs, k + 1), LAMBDA rest :
                [log |-> c.log \o rest.log, out |-> rest.out,
                 shapes |-> << c.shape >> \o rest.shapes]))

\* the tree of message names of a MsgSpec
RECURSIVE ShapeOf(_), ShapesOf(_)
ShapeOf(node) ==
  [name |-> node.data.msg_type.msg_name, children |-> ShapesOf(node.children)]

ShapesOf(nodes) ==
  IF nodes = << >> THEN << >>
  ELSE << ShapeOf(Head(nodes)) >> \o ShapesOf(Tail(nodes))

IsOtherField(f) == f.field_type.id = "Other"

\* every node has one child per field of kind Other, in field order, the
\* child's data being the definition of the field's type looked up with the
\* package of the node as parent
RECURSIVE ChildrenMatchFields(_)
ChildrenMatchFields(node) ==
  LET others == SelectSeq(node.data.fields, IsOtherField)
  IN  /\ Len(node.children) = Len(others)
      /\ \A c \in 1..Len(others) :
           /\ Ok(node.children[c].data) =
                get_message_definition(env, others[c].field_type.base_name,
                                       node.data.msg_type.pkg_name)
           /\ ChildrenMatchFields(node.children[c])

SpecDone == pcK = "done"
SpecBuilt == pcK = "done" /\ IsOk(spec_res)

\* C23: in a returned tree every node has exactly one child per field of
\* kind Other of its message (an array field once), in field order, the
\* child's data being the definition retrieved for that field with the
\* node's package as parent; builtin fields have no child.
C23_OneChildPerOtherField ==
  SpecBuilt =>
    /\ ChildrenMatchFields(spec_res.v)
    /\ ShapeOf(spec_res.v) = WrittenVisit("A").shape

\* C23 witness: a tree whose root has a builtin field and an array field of
\* a message type, the child having a child of its own
C23_Witness ==
  /\ SpecBuilt
  /\ spec_in.A = FileOf(<<"i", "Cs">>)
  /\ Len(spec_res.v.children) = 1
  /\ Len(spec_res.v.children[1].children) = 1

\* the message files a file refers to
Edges(n) ==
  IF spec_in[n].kind = "refs"
  THEN {RefTarget(spec_in[n].refs[k]) : k \in 1..Len(spec_in[n].refs)} \cap FileNodes
  ELSE {}

Grow(S) == S \cup UNION {Edges(n) : n \in S}

\* the files reachable from the root file, and those reachable from n in
\* one reference or more
Reachable == Grow(Grow(Grow({"A"})))
ReachableFrom(n) == Grow(Grow(Edges(n)))

\* the reachable files that refer back to themselves
CycleNodes == {n \in Reachable : n \in ReachableFrom(n)}

RECURSIVE LeavesBuiltin(_)
LeavesBuiltin(node) ==
  IF node.children = << >>
  THEN \A f \in 1..Len(node.data.fields) : node.data.fields[f].field_type.id # "Other"
  ELSE \A c \in 1..Len(node.children) : LeavesBuiltin(node.children[c])

\* C24: when the references reachable from the root form no cycle,
\* MsgSpec::new terminates, with a tree or an error, and every leaf of a
\* returned tree is a message whose fields are all builtin.
C24_AcyclicBuildTerminates ==
  /\ (CycleNodes = {}) => <>SpecDone
  /\ [](SpecBuilt => LeavesBuiltin(spec_res.v))

\* C24 witness: a build over a chain of three files has returned a tree
C24_Witness ==
  /\ SpecBuilt
  /\ CycleNodes = {}
  /\ Reachable = FileNodes
  /\ spec_in.B = FileOf(<<"C">>)

\* every reachable file can be read and parsed, and no reachable file
\* refers to a package without a share directory
AllReachableGood ==
  \A n \in Reachable :
    /\ spec_in[n].kind = "refs"
    /\ \A k \in 1..Len(spec_in[n].refs) : RefTarget(spec_in[n].refs[k]) # "D"

\* C25 (as claimed): when a type reachable from the root refers back to
\* itself and every definition on the cycle can be retrieved and parsed,
\* MsgSpec::new never returns, neither a tree nor an error.
C25_CycleNeverReturns ==
  (CycleNodes # {} /\ \A n \in CycleNodes : spec_in[n].kind = "refs")
    => ~SpecDone

\* C25 (amended): when a type reachable from the root refers back to itself
\* and every definition reachable from the root can be retrieved and parsed,
\* MsgSpec::new never returns, neither a tree nor an error.
C25_CycleOfGoodFilesNeverReturns ==
  (CycleNodes # {} /\ AllReachableGood) => ~SpecDone

\* C25 witness: the recursion over a cycle of good files is MaxDepth calls
\* deep and about to go deeper
C25_Witness ==
  /\ CycleNodes # {}
  /\ AllReachableGood
  /\ pcK = "run"
  /\ Len(stack) = MaxDepth
  /\ ~Top.call
  /\ Top.k <= Len(Top.msg_def.fields)
  /\ ShouldExpand(Top.msg_def.fields[Top.k], stack)

\* C26: when retrieving or parsing a definition fails at any depth,
\* MsgSpec::new returns that error as it is and no tree; nothing is looked up
\* after the failure.
C26_FirstFailureReturned ==
  SpecDone =>
    /\ IsOk(spec_res) <=> WrittenVisit("A").out = "ok"
    /\ ~IsOk(spec_res) =>
         /\ spec_res = ErrorOf(WrittenVisit("A").out)
         /\ lookups = WrittenVisit("A").log

\* C26 witness: the read of a definition two levels down failed, with a
\* second field of the root still to expand
C26_Witness ==
  /\ SpecDone
  /\ spec_in.A = FileOf(<<"B", "Cs">>)
  /\ spec_res = Err("No such file or directory")
  /\ Len(lookups) = 3

RECURSIVE NodeCount(_), NodesCount(_)
NodeCount(node) == 1 + NodesCount(node.children)

NodesCount(nodes) ==
  IF nodes = << >> THEN 0 ELSE NodeCount(Head(nodes)) + NodesCount(Tail(nodes))

\* the number of nodes of the tree whose message has the lookup key
RECURSIVE NodeCountOf(_, _), NodesCountOf(_, _)
NodeCountOf(node, key) ==
  (IF << node.data.msg_type.pkg_name, node.data.msg_type.msg_name >> = key
   THEN 1 ELSE 0) + NodesCountOf(node.children, key)

NodesCountOf(nodes, key) ==
  IF nodes = << >> THEN 0
  ELSE NodeCountOf(Head(nodes), key) + NodesCountOf(Tail(nodes), key)

LookupCount(key) == Cardinality({k \in 1..Len(lookups) : lookups[k] = key})

\* C27: a successful build looks up and parses one definition per node of
\* the tree: a type that k fields of kind Other refer to is looked up k
\* times.
C27_OneLookupPerNode ==
  SpecBuilt =>
    /\ Len(lookups) = NodeCount(spec_res.v)
    /\ lookups = WrittenVisit("A").log
    /\ \A n \in FileNodes : LookupCount(KeyOf(n)) = NodeCountOf(spec_res.v, KeyOf(n))

\* C27 witness: a tree in which one definition was looked up twice
C27_Witness ==
  /\ SpecBuilt
  /\ \E n \in FileNodes : LookupCount(KeyOf(n)) = 2

(***************************************************************************)
(* Properties of ROSType::set_pkg_name (checked under SpecROSType)         *)
(***************************************************************************)
\* C28 (as claimed): the package of a type can be set at most once and only
\* while it is empty: a call on a type with a package is rejected, and after
\* a call that succeeded every later call is rejected, whatever its argument.
C28_PackageSetAtMostOnce ==
  /\ \A k \in 1..Len(ros_log) : ros_log[k].had_pkg => ~ros_log[k].ok
  /\ Cardinality({k \in 1..Len(ros_log) : ros_log[k].ok}) <= 1


(***************************************************************************)
(* Properties of the two loops of parse_message_definitions (checked      *)
(* under Spec)                                                             *)
(***************************************************************************)
\* C29: at each point where parse_message_definitions mutates a Message
\* through its Arc (set_type in the first loop, the resolution of the second
\* loop) the Arc has exactly one strong reference, so the function never
\* returns "Could not get mutable reference to message".
C29_MessagesSolelyOwned ==
  /\ get_mut(ArcNew, TRUE) = Ok(TRUE)
  /\ Len(strong) = Len(parsed_msgs)
  /\ \A k \in 1..Len(strong) : strong[k] = 1
  /\ result # Err("Could not get mutable reference to message")

\* C29 witness: a bundle of at least two blocks was returned after the type
\* of its first block was set from the root type and every message was
\* resolved
C29_Witness ==
  /\ Returned
  /\ Len(result.v) >= 2
  /\ j = Len(parsed_msgs) + 1
  /\ MessageNew(parts[1]).v.msg_type.base_name = EmptyStr
  /\ result.v[1].msg_type = root_type

\* C30: a step of the resolution pass changes one message only, the next
\* one, and in it nothing but the types of fields: the type of the message,
\* the number and order of its fields, and every field's name, is_array,
\* array size, is_constant and value stay as parsed; a field whose type
\* changes had an empty package and keeps its short name.
C30_ResolutionOnlyRebindsTypes ==
  [][pc = "resolve" =>
      /\ Len(parsed_msgs') = Len(parsed_msgs)
      /\ parsed_msgs' # parsed_msgs => j' = j + 1
      /\ \A k \in 1..Len(parsed_msgs) :
           /\ k # j => parsed_msgs'[k] = parsed_msgs[k]
           /\ parsed_msgs'[k].msg_type = parsed_msgs[k].msg_type
           /\ Len(parsed_msgs'[k].fields) = Len(parsed_msgs[k].fields)
           /\ \A f \in 1..Len(parsed_msgs[k].fields) :
                /\ FieldShape(parsed_msgs'[k].fields[f])
                     = FieldShape(parsed_msgs[k].fields[f])
                /\ parsed_msgs'[k].fields[f].field_type.msg_name
                     = parsed_msgs[k].fields[f].field_type.msg_name
                /\ parsed_msgs'[k].fields[f].field_type
                     # parsed_msgs[k].fields[f].field_type
                   => parsed_msgs[k].fields[f].field_type.pkg_name = EmptyStr
  ]_vars

\* C30 witness: a returned bundle in which the resolution pass rebound the
\* type of a field
C30_Witness ==
  /\ Returned
  /\ \E k \in 1..Len(result.v) : \E f \in 1..Len(result.v[k].fields) :
       result.v[k].fields[f].field_type
         # MessageNew(parts[k]).v.fields[f].field_type

=============================================================================
